---- MODULE Spec2Model ----
(***************************************************************************)
(* 2D FDTD on a Yee grid: the three evolution engines (no_pml, bpml, cpml), *)
(* the coefficient derivations, the callers that set a run up and the       *)
(* dispatchers that select an engine.                                       *)
(*                                                                          *)
(* Numbers.  The source computes in binary floating point.  Here every      *)
(* number is an integer: sums, differences and products are exact and a     *)
(* quotient is rounded to the integer grid (floor), as the source rounds it *)
(* to the float grid.  Units are normalised (eps_0 = mu_0 = 1); a source    *)
(* amplitude of 1.0 is the integer 10.                                      *)
(*                                                                          *)
(* Arrays.  A numpy array is a record [shape, data]; data maps index tuples *)
(* (0-based) to numbers.  A name that the code rebinds (hz = hz - ...) is a *)
(* fresh array: the buffer the caller handed in keeps its contents.  A      *)
(* slice assignment (ex[:, 1:-1] = ...) writes the caller's buffer.         *)
(***************************************************************************)
EXTENDS Integers, Sequences, FiniteSets, TLC

\* ------------------------------------------------------------------ bounds
MaxN == 3
MaxNt == 2

\* ------------------------------------------------------- physical constants
eps_0 == 1
mu_0 == 1

\* ------------------------------------------------------------ numpy helpers
Idx2(n, m) == (0 .. n - 1) \X (0 .. m - 1)

Idx3(n, m, k) == (0 .. n - 1) \X (0 .. m - 1) \X (0 .. k - 1)

np_zeros2(n, m) == [shape |-> <<n, m>>, data |-> [q \in Idx2(n, m) |-> 0]]

np_full2(n, m, v) == [shape |-> <<n, m>>, data |-> [q \in Idx2(n, m) |-> v]]

np_zeros3(n, m, k) == [shape |-> <<n, m, k>>, data |-> [q \in Idx3(n, m, k) |-> 0]]

np_full3(n, m, k, v) == [shape |-> <<n, m, k>>, data |-> [q \in Idx3(n, m, k) |-> v]]

At(a, i, j) == a.data[<<i, j>>]

\* a[i] for an integer index i on an axis of length n: the position numpy
\* resolves it to (negative indices count from the end), or -1 for IndexError
np_index(i, n) ==
    IF 0 <= i /\ i < n THEN i
    ELSE IF -n <= i /\ i < 0 THEN i + n
    ELSE -1

\* the positions a[lo:hi] selects on an axis of length n (lo, hi may be negative)
np_slice(lo, hi, n) ==
    LET clip(v) == IF v < 0 THEN (IF v + n < 0 THEN 0 ELSE v + n)
                   ELSE (IF v > n THEN n ELSE v)
    IN  clip(lo) .. (clip(hi) - 1)

\* ------------------------------------------------------------------ sources
\* np.sin(t / 5), in tenths, for the steps the bounds allow
sin_tenths == <<0, 2, 4, 6, 7, 8, 9, 10>>

simple_sin_source(time_step) == sin_tenths[time_step + 1]

null_source(time_step) == time_step * 0

\* the test sources: 1.0 if t == 0 else 0.0, and the constant 2.0
impulse_source(time_step) == IF time_step = 0 THEN 10 ELSE 0

constant_source(time_step) == 20

SourceNames == {"null_source", "simple_sin_source", "impulse_source", "constant_source"}

source(name, time_step) ==
    CASE name = "null_source" -> null_source(time_step)
      [] name = "simple_sin_source" -> simple_sin_source(time_step)
      [] name = "impulse_source" -> impulse_source(time_step)
      [] OTHER -> constant_source(time_step)

\* ------------------------------------------------------ field allocation
\* np.zeros(shape), np.ones(shape) raise ValueError for a negative dimension; a dimension
\* of 0 gives an empty array
np_zeros_raised(shapes) ==
    IF \E s \in shapes : \E i \in DOMAIN s : s[i] < 0 THEN "ValueError" ELSE ""

make_fields_raised(nx, ny) == np_zeros_raised({<<nx, ny + 1>>, <<nx + 1, ny>>, <<nx, ny>>})

make_sigmas_raised(nx, ny) ==
    np_zeros_raised({<<nx - 1, ny>>, <<nx, ny - 1>>, <<nx, ny>>})

make_fields(nx, ny) == <<np_zeros2(nx, ny + 1), np_zeros2(nx + 1, ny), np_zeros2(nx, ny)>>

make_sigmas(nx, ny) ==
    <<np_zeros2(nx - 1, ny), np_zeros2(nx, ny - 1), np_zeros2(nx, ny), np_zeros2(nx, ny)>>

make_env(nx, ny) == <<np_full2(nx, ny, eps_0), np_full2(nx, ny, mu_0)>>

\* ------------------------------------------------------------ no_pml engine
no_pml_calculate_constants(dx, dy, dt) ==
    LET eps == eps_0
        mu == mu_0
        cex == dt \div (eps * dy)
        cey == dt \div (eps * dx)
        chzx == dt \div (mu * dx)
        chzy == dt \div (mu * dy)
    IN  <<cex, cey, chzx, chzy>>

\* hz = hz - chzx * (ey[1:, :] - ey[:-1, :]) + chzy * (ex[:, 1:] - ex[:, :-1])
no_pml_update_hz(ex, ey, hz, constants) ==
    LET chzx == constants[3]
        chzy == constants[4]
    IN  [shape |-> hz.shape,
         data |-> [q \in DOMAIN hz.data |->
                     hz.data[q]
                     - chzx * (At(ey, q[1] + 1, q[2]) - At(ey, q[1], q[2]))
                     + chzy * (At(ex, q[1], q[2] + 1) - At(ex, q[1], q[2]))]]

\* a stencil one cell too wide: ex[:, 1:-1] + cex * (hz[:, 2:] - hz[:, :-1]), the last
\* column taking hz[:, -1]
no_pml_update_ex_wide(ex, hz, constants) ==
    LET cex == constants[1]
        up(j) == IF j + 1 < hz.shape[2] THEN j + 1 ELSE j
    IN  [ex EXCEPT !.data = [q \in DOMAIN ex.data |->
            IF q[2] \in np_slice(1, -1, ex.shape[2])
            THEN ex.data[q] + cex * (At(hz, q[1], up(q[2])) - At(hz, q[1], q[2] - 1))
            ELSE ex.data[q]]]

\* an update of every column but the first, ex[:, 1:] = ex[:, 1:] + cex * (... - hz), the
\* last column taking 0 for the Hz beyond the edge
no_pml_update_ex_edge(ex, hz, constants) ==
    LET cex == constants[1]
        beyond(i, j) == IF j < hz.shape[2] THEN At(hz, i, j) ELSE 0
    IN  [ex EXCEPT !.data = [q \in DOMAIN ex.data |->
            IF q[2] >= 1
            THEN ex.data[q] + cex * (beyond(q[1], q[2]) - At(hz, q[1], q[2] - 1))
            ELSE ex.data[q]]]

\* ex[:, 1:-1] = ex[:, 1:-1] + cex * (hz[:, 1:] - hz[:, :-1])
no_pml_update_ex(ex, hz, constants) ==
    LET cex == constants[1]
    IN  [ex EXCEPT !.data = [q \in DOMAIN ex.data |->
            IF q[2] \in np_slice(1, -1, ex.shape[2])
            THEN ex.data[q] + cex * (At(hz, q[1], q[2]) - At(hz, q[1], q[2] - 1))
            ELSE ex.data[q]]]

\* ey[1:-1, :] = ey[1:-1, :] - cey * (hz[1:, :] - hz[:-1, :])
no_pml_update_ey(ey, hz, constants) ==
    LET cey == constants[2]
    IN  [ey EXCEPT !.data = [q \in DOMAIN ey.data |->
            IF q[1] \in np_slice(1, -1, ey.shape[1])
            THEN ey.data[q] - cey * (At(hz, q[1], q[2]) - At(hz, q[1] - 1, q[2]))
            ELSE ey.data[q]]]

\* -------------------------------------------------------------- bpml engine
bpml_make_auxiliary_fields(nx, ny) == <<np_zeros2(nx, ny), np_zeros2(nx, ny)>>

bpml_calculate_constants(eps, mu, sigmas, dx, dy, dt) ==
    LET sigmax == sigmas[1]
        sigmay == sigmas[2]
        sigmamx == sigmas[3]
        sigmamy == sigmas[4]
        nx == eps.shape[1]
        ny == eps.shape[2]
        eps_shorty == [q \in Idx2(nx, ny - 1) |-> (At(eps, q[1], q[2] + 1) + At(eps, q[1], q[2])) \div 2]
        eps_shortx == [q \in Idx2(nx - 1, ny) |-> (At(eps, q[1] + 1, q[2]) + At(eps, q[1], q[2])) \div 2]
        ex1 == [shape |-> <<nx, ny - 1>>, data |-> [q \in Idx2(nx, ny - 1) |->
                  (2 * eps_shorty[q] - sigmay.data[q] * dt) \div (2 * eps_shorty[q] + sigmay.data[q] * dt)]]
        ex2 == [shape |-> <<nx, ny - 1>>, data |-> [q \in Idx2(nx, ny - 1) |->
                  ((2 * dt) \div (2 * eps_shorty[q] + sigmay.data[q] * dt)) \div dy]]
        ey1 == [shape |-> <<nx - 1, ny>>, data |-> [q \in Idx2(nx - 1, ny) |->
                  (2 * eps_shortx[q] - sigmax.data[q] * dt) \div (2 * eps_shortx[q] + sigmax.data[q] * dt)]]
        ey2 == [shape |-> <<nx - 1, ny>>, data |-> [q \in Idx2(nx - 1, ny) |->
                  ((2 * dt) \div (2 * eps_shortx[q] + sigmax.data[q] * dt)) \div dx]]
        hzx1 == [shape |-> <<nx, ny>>, data |-> [q \in Idx2(nx, ny) |->
                  (2 * mu.data[q] - sigmamx.data[q] * dt) \div (2 * mu.data[q] + sigmamx.data[q] * dt)]]
        hzy1 == [shape |-> <<nx, ny>>, data |-> [q \in Idx2(nx, ny) |->
                  (2 * mu.data[q] - sigmamy.data[q] * dt) \div (2 * mu.data[q] + sigmamy.data[q] * dt)]]
        hzx2 == [shape |-> <<nx, ny>>, data |-> [q \in Idx2(nx, ny) |->
                  ((2 * dt) \div (2 * mu.data[q] + sigmamx.data[q] * dt)) \div dx]]
        hzy2 == [shape |-> <<nx, ny>>, data |-> [q \in Idx2(nx, ny) |->
                  ((2 * dt) \div (2 * mu.data[q] + sigmamy.data[q] * dt)) \div dy]]
    IN  <<ex1, ex2, ey1, ey2, hzx1, hzx2, hzy1, hzy2>>

\* a sum where the decay factor multiplies: hzx1 + hzx - hzx2 * (ey[1:, :] - ey[:-1, :])
bpml_update_hzx_sum(ey, hzx, constants) ==
    LET hzx1 == constants[5]
        hzx2 == constants[6]
    IN  [shape |-> hzx.shape,
         data |-> [q \in DOMAIN hzx.data |->
                     hzx1.data[q] + hzx.data[q]
                     - hzx2.data[q] * (At(ey, q[1] + 1, q[2]) - At(ey, q[1], q[2]))]]

\* hzx = hzx1 * hzx - hzx2 * (ey[1:, :] - ey[:-1, :])
bpml_update_hzx(ey, hzx, constants) ==
    LET hzx1 == constants[5]
        hzx2 == constants[6]
    IN  [shape |-> hzx.shape,
         data |-> [q \in DOMAIN hzx.data |->
                     hzx1.data[q] * hzx.data[q]
                     - hzx2.data[q] * (At(ey, q[1] + 1, q[2]) - At(ey, q[1], q[2]))]]

\* the curl term with the sign of the x component: hzy1 * hzy - hzy2 * (ex[:, 1:] - ex[:, :-1])
bpml_update_hzy_minus(ex, hzy, constants) ==
    LET hzy1 == constants[7]
        hzy2 == constants[8]
    IN  [shape |-> hzy.shape,
         data |-> [q \in DOMAIN hzy.data |->
                     hzy1.data[q] * hzy.data[q]
                     - hzy2.data[q] * (At(ex, q[1], q[2] + 1) - At(ex, q[1], q[2]))]]

\* hzy = hzy1 * hzy + hzy2 * (ex[:, 1:] - ex[:, :-1])
bpml_update_hzy(ex, hzy, constants) ==
    LET hzy1 == constants[7]
        hzy2 == constants[8]
    IN  [shape |-> hzy.shape,
         data |-> [q \in DOMAIN hzy.data |->
                     hzy1.data[q] * hzy.data[q]
                     + hzy2.data[q] * (At(ex, q[1], q[2] + 1) - At(ex, q[1], q[2]))]]

\* hz = hzx: the recombination without the second component
bpml_update_hz_x(hzx, hzy) ==
    [shape |-> hzx.shape, data |-> [q \in DOMAIN hzx.data |-> hzx.data[q]]]

\* hz = hzx + hzy
bpml_update_hz(hzx, hzy) ==
    [shape |-> hzx.shape, data |-> [q \in DOMAIN hzx.data |-> hzx.data[q] + hzy.data[q]]]

\* ex[:, 1:-1] = ex1 * ex[:, 1:-1] + ex2 * (hz[:, 1:] - hz[:, :-1])
bpml_update_ex(ex, hz, constants) ==
    LET ex1 == constants[1]
        ex2 == constants[2]
    IN  [ex EXCEPT !.data = [q \in DOMAIN ex.data |->
            IF q[2] \in np_slice(1, -1, ex.shape[2])
            THEN At(ex1, q[1], q[2] - 1) * ex.data[q]
                 + At(ex2, q[1], q[2] - 1) * (At(hz, q[1], q[2]) - At(hz, q[1], q[2] - 1))
            ELSE ex.data[q]]]

\* ey[1:-1, :] = ey1 * ey[1:-1, :] - ey2 * (hz[1:, :] - hz[:-1, :])
bpml_update_ey(ey, hz, constants) ==
    LET ey1 == constants[3]
        ey2 == constants[4]
    IN  [ey EXCEPT !.data = [q \in DOMAIN ey.data |->
            IF q[1] \in np_slice(1, -1, ey.shape[1])
            THEN At(ey1, q[1] - 1, q[2]) * ey.data[q]
                 - At(ey2, q[1] - 1, q[2]) * (At(hz, q[1], q[2]) - At(hz, q[1] - 1, q[2]))
            ELSE ey.data[q]]]

\* -------------------------------------------------------------- cpml engine
cpml_make_auxiliary_fields(nx, ny) ==
    <<np_zeros2(nx - 1, ny), np_zeros2(nx, ny - 1), np_zeros2(nx, ny), np_zeros2(nx, ny)>>

cpml_calculate_constants(eps, mu, dx, dy, dt) ==
    LET kx == 1
        ky == 1
        nx == eps.shape[1]
        ny == eps.shape[2]
        cex0 == [q \in Idx2(nx, ny) |-> dt \div (ky * dy * eps.data[q])]
        cey0 == [q \in Idx2(nx, ny) |-> dt \div (kx * dx * eps.data[q])]
        chx == [shape |-> <<nx, ny>>, data |-> [q \in Idx2(nx, ny) |-> dt \div (ky * dy * mu.data[q])]]
        chy == [shape |-> <<nx, ny>>, data |-> [q \in Idx2(nx, ny) |-> dt \div (kx * dx * mu.data[q])]]
        cex == [shape |-> <<nx, ny - 1>>, data |-> [q \in Idx2(nx, ny - 1) |->
                  (cex0[<<q[1], q[2] + 1>>] + cex0[q]) \div 2]]
        cey == [shape |-> <<nx - 1, ny>>, data |-> [q \in Idx2(nx - 1, ny) |->
                  (cey0[<<q[1] + 1, q[2]>>] + cey0[q]) \div 2]]
        pe == [q \in Idx2(nx, ny) |-> dt \div eps.data[q]]
        pm == [shape |-> <<nx, ny>>, data |-> [q \in Idx2(nx, ny) |-> dt \div mu.data[q]]]
        px == [shape |-> <<nx, ny - 1>>, data |-> [q \in Idx2(nx, ny - 1) |->
                  (pe[<<q[1], q[2] + 1>>] + pe[q]) \div 2]]
        py == [shape |-> <<nx - 1, ny>>, data |-> [q \in Idx2(nx - 1, ny) |->
                  (pe[<<q[1] + 1, q[2]>>] + pe[q]) \div 2]]
    IN  <<cex, cey, chx, chy, px, py, pm>>

\* phy = bhy * phy + ahy * (ex[:, 1:] - ex[:, :-1])
cpml_update_phy(ex, phy, aux_constants) ==
    LET ahy == aux_constants[4]
        bhy == aux_constants[8]
    IN  [shape |-> phy.shape,
         data |-> [q \in DOMAIN phy.data |->
                     bhy.data[q] * phy.data[q]
                     + ahy.data[q] * (At(ex, q[1], q[2] + 1) - At(ex, q[1], q[2]))]]

\* phx = bhx * phx + ahx * (ey[1:, :] - ey[:-1, :])
cpml_update_phx(ey, phx, aux_constants) ==
    LET ahx == aux_constants[3]
        bhx == aux_constants[7]
    IN  [shape |-> phx.shape,
         data |-> [q \in DOMAIN phx.data |->
                     bhx.data[q] * phx.data[q]
                     + ahx.data[q] * (At(ey, q[1] + 1, q[2]) - At(ey, q[1], q[2]))]]

\* hz = hz[:, 1:]: the name hz bound to an array one column narrower
cpml_update_hz_trimmed(ex, ey, hz, phx, phy, constants) ==
    [shape |-> <<hz.shape[1], hz.shape[2] - 1>>,
     data |-> [q \in Idx2(hz.shape[1], hz.shape[2] - 1) |-> At(hz, q[1], q[2] + 1)]]

\* cex, cey, chy, chx, px, py, pm = constants
\* hz = hz - chy * (ey[1:, :] - ey[:-1, :]) + chx * (ex[:, 1:] - ex[:, :-1]) + pm * (phy - phx)
cpml_update_hz(ex, ey, hz, phx, phy, constants) ==
    LET chy == constants[3]
        chx == constants[4]
        pm == constants[7]
    IN  [shape |-> hz.shape,
         data |-> [q \in DOMAIN hz.data |->
                     hz.data[q]
                     - chy.data[q] * (At(ey, q[1] + 1, q[2]) - At(ey, q[1], q[2]))
                     + chx.data[q] * (At(ex, q[1], q[2] + 1) - At(ex, q[1], q[2]))
                     + pm.data[q] * (phy.data[q] - phx.data[q])]]

\* pey = bey * pey + aey * (hz[:, 1:] - hz[:, :-1])
cpml_update_pey(hz, pey, aux_constants) ==
    LET aey == aux_constants[2]
        bey == aux_constants[6]
    IN  [shape |-> pey.shape,
         data |-> [q \in DOMAIN pey.data |->
                     bey.data[q] * pey.data[q]
                     + aey.data[q] * (At(hz, q[1], q[2] + 1) - At(hz, q[1], q[2]))]]

\* pex = bex * pex + aex * (hz[1:, :] - hz[:-1, :])
cpml_update_pex(hz, pex, aux_constants) ==
    LET aex == aux_constants[1]
        bex == aux_constants[5]
    IN  [shape |-> pex.shape,
         data |-> [q \in DOMAIN pex.data |->
                     bex.data[q] * pex.data[q]
                     + aex.data[q] * (At(hz, q[1] + 1, q[2]) - At(hz, q[1], q[2]))]]

\* ex[:, 1:-1] = ex[:, 1:-1] + cex * (hz[:, 1:] - hz[:, :-1]) + px * pey
cpml_update_ex(ex, hz, pey, constants) ==
    LET cex == constants[1]
        px == constants[5]
    IN  [ex EXCEPT !.data = [q \in DOMAIN ex.data |->
            IF q[2] \in np_slice(1, -1, ex.shape[2])
            THEN ex.data[q]
                 + At(cex, q[1], q[2] - 1) * (At(hz, q[1], q[2]) - At(hz, q[1], q[2] - 1))
                 + At(px, q[1], q[2] - 1) * At(pey, q[1], q[2] - 1)
            ELSE ex.data[q]]]

\* ey[1:-1, :] = ey[1:-1, :] - cey * (hz[1:, :] - hz[:-1, :]) - py * pex
cpml_update_ey(ey, hz, pex, constants) ==
    LET cey == constants[2]
        py == constants[6]
    IN  [ey EXCEPT !.data = [q \in DOMAIN ey.data |->
            IF q[1] \in np_slice(1, -1, ey.shape[1])
            THEN ey.data[q]
                 - At(cey, q[1] - 1, q[2]) * (At(hz, q[1], q[2]) - At(hz, q[1] - 1, q[2]))
                 - At(py, q[1] - 1, q[2]) * At(pex, q[1] - 1, q[2])
            ELSE ey.data[q]]]

\* ------------------------------------------------- conductivity profiles
RECURSIVE pow(_, _)
pow(b, e) == IF e = 0 THEN 1 ELSE b * pow(b, e - 1)

\* int(math.sqrt(n)) and np.sqrt rounded to the integer grid
isqrt(n) == CHOOSE r \in 0 .. n : r * r <= n /\ (r + 1) * (r + 1) > n

\* math.log(r0) for r0 = 10 ** -k, rounded: -2.3 * k
math_log(k) == -((23 * k) \div 10)

\* for q in range(n + 1): one layer more than the thickness
last_write_wide(r, len, n) ==
    LET qs == {q \in 0 .. n : q = r \/ len - 1 - q = r}
    IN  IF qs = {} THEN -1 ELSE CHOOSE q \in qs : \A o \in qs : o <= q

\* for q in range(n): a[q] = v(q); a[-q - 1] = v(q)
\* the q whose write position r of an axis of length len keeps (the last one), or -1
last_write(r, len, n) ==
    LET qs == {q \in 0 .. n - 1 : q = r \/ len - 1 - q = r}
    IN  IF qs = {} THEN -1 ELSE CHOOSE q \in qs : \A o \in qs : o <= q

\* whether the loop above raises IndexError on an axis of length len
band_raises(len, n) == n > len

\* common.pml: pmlc = (w, r0, m), r0 given by its decimal exponent.
\* sigmas hold twice the layer distance until the final scaling.
pml(sigmas, pmlc, dx, dy) ==
    LET w == pmlc[1]
        m == pmlc[3]
        delta == isqrt((dx * dx + dy * dy) \div 2)
        sigmamax == (-math_log(pmlc[2]) * (m + 1) * eps_0 * 1) \div (2 * w * delta)
        wp == w + 1
        electric(q) == 2 * wp - 1 - 2 * q
        magnetic(q) == 2 * (wp - q)
        \* sigmamax * (sigma / w) ** m, sigma given doubled
        grade(d2) == (sigmamax * pow(d2, m)) \div pow(2 * w, m)
        rows(a, v(_)) == [a EXCEPT !.data = [c \in DOMAIN a.data |->
            LET q == last_write(c[1], a.shape[1], w)
            IN  grade(IF q = -1 THEN 2 * a.data[c] ELSE v(q))]]
        cols(a, v(_)) == [a EXCEPT !.data = [c \in DOMAIN a.data |->
            LET q == last_write(c[2], a.shape[2], w)
            IN  grade(IF q = -1 THEN 2 * a.data[c] ELSE v(q))]]
    IN  IF \/ band_raises(sigmas[1].shape[1], w) \/ band_raises(sigmas[2].shape[2], w)
           \/ band_raises(sigmas[3].shape[1], w) \/ band_raises(sigmas[4].shape[2], w)
        THEN [raised |-> "IndexError", sigmas |-> sigmas]
        ELSE [raised |-> "",
              sigmas |-> <<rows(sigmas[1], electric), cols(sigmas[2], electric),
                           rows(sigmas[3], magnetic), cols(sigmas[4], magnetic)>>]

\* sigmas[0][w:-w, w:-w] = s; sigmas[1][w:-w, w:-w] = s
add_loss(sigmas, w, s) ==
    LET fill(a) == [a EXCEPT !.data = [c \in DOMAIN a.data |->
            IF c[1] \in np_slice(w, -w, a.shape[1]) /\ c[2] \in np_slice(w, -w, a.shape[2])
            THEN s ELSE a.data[c]]]
    IN  <<fill(sigmas[1]), fill(sigmas[2]), sigmas[3], sigmas[4]>>

\* int(meters_x / dx), int(meters_y / dy); the lengths are given in tenths of a metre
meters_to_points(meters_x, meters_y, dx, dy) ==
    <<meters_x \div (10 * dx), meters_y \div (10 * dy)>>

\* the conductivity of the perfect conductor (1e9 in the source) and of the lossy disc
SigmaConductor == 1000000
SigmaDisc == 1

environment_problem_example(eps, mu, sigmas, dx, dy) ==
    LET nx == sigmas[3].shape[1]
        ny == sigmas[3].shape[2]
        pec == meters_to_points(22, 30, dx, dy)
        corner == {c \in Idx2(nx, ny) :
                     /\ c[1] \in np_slice(-pec[1], nx, nx)
                     /\ c[2] \in np_slice(-pec[2], ny, ny)}
        plate_1 == meters_to_points(21, 11, dx, dy)
        plate_2 == meters_to_points(11, 21, dx, dy)
        qx == plate_1[1] - plate_2[1]
        plate == {<<np_index(plate_2[1] + i, nx), np_index(plate_2[2] - i, ny)>> : i \in 0 .. qx - 1}
        b == meters_to_points(16, 41, dx, dy)
        rr == meters_to_points(5, 5, dx, dy)
        radius == isqrt((rr[1] * rr[1]) \div 2 + (rr[2] * rr[2]) \div 2)
        visits == {c \in (b[1] - rr[1] .. b[1] + rr[1] - 1) \X (b[2] - rr[2] .. b[2] + rr[2] - 1) :
                     isqrt((c[1] - b[1]) * (c[1] - b[1]) + (c[2] - b[2]) * (c[2] - b[2])) <= radius}
        disc == {<<np_index(c[1], nx), np_index(c[2], ny)>> : c \in visits}
        hits(c) == Cardinality({v \in visits : <<np_index(v[1], nx), np_index(v[2], ny)>> = c})
        bad(cells) == \E c \in cells : c[1] = -1 \/ c[2] = -1
        conduct(a) == [a EXCEPT !.data = [c \in DOMAIN a.data |->
            IF c \in disc THEN SigmaDisc
            ELSE IF c \in plate \/ c \in corner THEN SigmaConductor
            ELSE a.data[c]]]
    IN  IF bad(plate) \/ bad(disc)
        THEN [raised |-> "IndexError", eps |-> eps, mu |-> mu, sigmas |-> sigmas]
        ELSE [raised |-> "",
              eps |-> [eps EXCEPT !.data = [c \in DOMAIN eps.data |-> eps.data[c] * pow(4, hits(c))]],
              mu |-> mu,
              sigmas |-> <<sigmas[1], sigmas[2], conduct(sigmas[3]), conduct(sigmas[4])>>]

\* ------------------------------------------- cpml recursion coefficients
\* the width of the alpha ramp, in cells
AlphaCells == 10

\* alpha_x, alpha_y, alpha_mx, alpha_my in tenths; raises on an axis shorter than the ramp
cpml_alpha(nx, ny) ==
    LET ramp(r, len) == LET i == last_write(r, len, AlphaCells)
                        IN  IF i = -1 THEN 10 ELSE i + 1
        byrow(n, m) == [shape |-> <<n, m>>, data |-> [c \in Idx2(n, m) |-> ramp(c[1], n)]]
        bycol(n, m) == [shape |-> <<n, m>>, data |-> [c \in Idx2(n, m) |-> ramp(c[2], m)]]
    IN  IF band_raises(nx - 1, AlphaCells) \/ band_raises(ny - 1, AlphaCells)
        THEN [raised |-> "IndexError", alpha |-> <<>>]
        ELSE [raised |-> "",
              alpha |-> <<byrow(nx - 1, ny), bycol(nx, ny - 1), byrow(nx, ny), bycol(nx, ny)>>]

\* a decay factor below 1 whatever the conductivity is
np_exp_neg_decay(num, den) == 0

\* np.exp(-(num / den)) for num >= 0 < den, rounded down to the integer grid:
\* 1 when the argument is 0, and 0 (a value below 1) when it is positive
np_exp_neg(num, den) == IF num = 0 THEN 1 ELSE 0

\* bex = np.exp(-(sigmas[0] / (k + alpha_x)) * (dt / const.epsilon_0)); aex = (bex - 1) / dx; ...
cpml_recursion(alpha, sigmas, dx, dy, dt) ==
    LET k == 1
        b(i) == [shape |-> sigmas[i].shape, data |-> [c \in DOMAIN sigmas[i].data |->
                   np_exp_neg(10 * sigmas[i].data[c] * dt, (10 * k + alpha[i].data[c]) * eps_0)]]
        a(i, d) == [shape |-> sigmas[i].shape, data |-> [c \in DOMAIN sigmas[i].data |->
                   (b(i).data[c] - 1) \div d]]
    IN  <<a(1, dx), a(2, dy), a(3, dx), a(4, dy), b(1), b(2), b(3), b(4)>>

cpml_constants(nx, ny, sigmas, dx, dy, dt) ==
    LET derive(al) ==
            IF al.raised # ""
            THEN [raised |-> al.raised, aux_constants |-> <<>>]
            ELSE [raised |-> "", aux_constants |-> cpml_recursion(al.alpha, sigmas, dx, dy, dt)]
    IN  derive(cpml_alpha(nx, ny))

\* ------------------------------------------------------------------ callers
\* what a call hands to an engine's evolution, or the exception it raises first
Raised(kind) ==
    [raised |-> kind, fields |-> <<>>, aux_fields |-> <<>>, constants |-> <<>>,
     aux_constants |-> <<>>, history |-> <<>>]

call_common(nx, ny, nt, dx, dy, pmlc) ==
    LET common(env, made) ==
            [raised |-> made.raised, fields |-> make_fields(nx, ny), eps |-> env[1], mu |-> env[2],
             sigmas |-> made.sigmas, history |-> np_zeros3(nx, ny, nt)]
    IN  IF make_fields_raised(nx, ny) # "" \/ make_sigmas_raised(nx, ny) # ""
        THEN [raised |-> "ValueError", fields |-> <<>>, eps |-> <<>>, mu |-> <<>>,
              sigmas |-> <<>>, history |-> <<>>]
        ELSE common(make_env(nx, ny), pml(make_sigmas(nx, ny), pmlc, dx, dy))

call_npml(nx, ny, nt, dx, dy, dt) ==
    IF make_fields_raised(nx, ny) # "" THEN Raised(make_fields_raised(nx, ny))
    ELSE [raised |-> "", fields |-> make_fields(nx, ny), aux_fields |-> <<>>,
          constants |-> no_pml_calculate_constants(dx, dy, dt), aux_constants |-> <<>>,
          history |-> np_zeros3(nx, ny, nt)]

\* s is a Python value <<type, value>>: <<"float", v>>, or <<"function", 0>> where a
\* caller passes the source callback in its place (numpy cannot store it in a float array)
call_bpml(nx, ny, nt, dx, dy, dt, pmlc, s) ==
    LET \* sigmas[2] *= mu / eps; sigmas[3] *= mu / eps
        scaled(lossy, eps, mu) ==
            <<lossy[1], lossy[2],
              [lossy[3] EXCEPT !.data = [q \in DOMAIN lossy[3].data |->
                  (lossy[3].data[q] * mu.data[q]) \div eps.data[q]]],
              [lossy[4] EXCEPT !.data = [q \in DOMAIN lossy[4].data |->
                  (lossy[4].data[q] * mu.data[q]) \div eps.data[q]]]>>
        run(c, e) ==
            IF c.raised # "" THEN Raised(c.raised)
            ELSE IF s[1] # "float" THEN Raised("TypeError")
            ELSE IF e.raised # "" THEN Raised(e.raised)
            ELSE [raised |-> "", fields |-> c.fields,
                  aux_fields |-> bpml_make_auxiliary_fields(nx, ny),
                  constants |-> bpml_calculate_constants(e.eps, e.mu, e.sigmas, dx, dy, dt),
                  aux_constants |-> <<>>, history |-> c.history]
        setup(c) ==
            run(c, environment_problem_example(c.eps, c.mu,
                       scaled(add_loss(c.sigmas, 10, s[2]), c.eps, c.mu), dx, dy))
    IN  setup(call_common(nx, ny, nt, dx, dy, pmlc))

call_cpml(nx, ny, nt, dx, dy, dt, pmlc) ==
    LET run(c, e, k) ==
            IF c.raised # "" THEN Raised(c.raised)
            ELSE IF e.raised # "" THEN Raised(e.raised)
            ELSE IF k.raised # "" THEN Raised(k.raised)
            ELSE [raised |-> "", fields |-> c.fields,
                  aux_fields |-> cpml_make_auxiliary_fields(nx, ny),
                  constants |-> cpml_calculate_constants(e.eps, e.mu, dx, dy, dt),
                  aux_constants |-> k.aux_constants, history |-> c.history]
        derive(c, e) == run(c, e, cpml_constants(nx, ny, e.sigmas, dx, dy, dt))
        setup(c) == derive(c, environment_problem_example(c.eps, c.mu, c.sigmas, dx, dy))
    IN  setup(call_common(nx, ny, nt, dx, dy, pmlc))

\* -------------------------------------------------------------- the inputs
Runs == {1, 2}

Engines == {"no", "bpml", "cpml"}

\* the corners and the centre of the grid, a point counted from the far end, and points
\* outside the grid on either side
SourcePoints(nx, ny) ==
    {<<0, 0>>, <<nx \div 2, ny \div 2>>, <<nx - 1, ny - 1>>} \cup
    {<<-1, -1>>, <<nx, 0>>, <<0, -ny - 1>>}

Spacings == {<<1, 1>>, <<1, 2>>}

TimeSteps == {4}

\* (w, k, m): thickness, R0 = 10 ** -k, grading order
PmlConfigs == {<<1, 6, 1>>, <<2, 6, 3>>}

\* how a run is started, apart from the grid, the spacing and the source point:
\* a direct call of an engine's evolution, as the unit tests make it (the fields may hold
\* the values of an earlier run, the environment is uniform with conductivity loss), ...
EvolutionVariants ==
    {[entry |-> "evolution", pml |-> e, pmlc |-> <<1, 6, 1>>, source |-> src, loss |-> l, used |-> u] :
        e \in Engines, src \in SourceNames, l \in 0 .. 1, u \in BOOLEAN}

\* ... a call of callers.call_npml, call_bpml or call_cpml, ...
CallVariants ==
    {[entry |-> "call", pml |-> e, pmlc |-> c, source |-> src, loss |-> 0, used |-> FALSE] :
        e \in Engines, src \in {"null_source", "simple_sin_source"}, c \in PmlConfigs}

Dispatchers == {"normal_test", "pml_test", "export_simulation"}

\* ... or a dispatcher that selects the engine by the identifier pml
DispatchVariants ==
    {[entry |-> f, pml |-> e, pmlc |-> <<1, 6, 1>>, source |-> "simple_sin_source",
      loss |-> 0, used |-> FALSE] :
        f \in Dispatchers, e \in Engines \cup {"fdtd"}}

Variants ==
    {v \in EvolutionVariants \cup CallVariants \cup DispatchVariants :
        /\ v.pml = "no" => v.loss = 0 /\ v.pmlc = <<1, 6, 1>>
        /\ v.used \/ v.loss # 0 => v.source = "simple_sin_source"
        /\ v.used => v.loss = 0}

Args(v, nx, ny, nt, d, dt, p, garbage) ==
    [entry |-> v.entry, pml |-> v.pml, nx |-> nx, ny |-> ny, nt |-> nt, dx |-> d[1], dy |-> d[2],
     dt |-> dt, p |-> p, pmlc |-> v.pmlc, s |-> 0, source |-> v.source, loss |-> v.loss,
     used |-> v.used, garbage |-> garbage, big |-> FALSE, given |-> <<>>]

\* ------------------------------------------------------ the source point
\* int(n / 2): Python truncates toward zero
int_half(n) == IF n >= 0 THEN n \div 2 ELSE -((-n) \div 2)

\* a command-line option is <<>> when the flag is absent (None) and <<v>> when it is given
Options(n) == {<<>>, <<0>>, <<n - 1>>}

\* SimulationParameters.__post_init__; source_point is <<>> for None
post_init_source_point(source_point, nx, ny) ==
    IF source_point = <<>> THEN <<int_half(nx), int_half(ny)>> ELSE source_point

\* main.py: (args.source_x, args.source_y) if args.source_x and args.source_y else None
main_source_point(source_x, source_y) ==
    LET truthy(o) == o # <<>> /\ o[1] # 0
    IN  IF truthy(source_x) /\ truthy(source_y) THEN <<source_x[1], source_y[1]>> ELSE <<>>

\* export_simulation.py: if args.source_x is not None and args.source_y is not None
export_main_source_point(source_x, source_y) ==
    IF source_x # <<>> /\ source_y # <<>> THEN <<source_x[1], source_y[1]>> ELSE <<>>

\* the parameters an entry point of the command line builds from its options
Parameters(a, source_x, source_y) ==
    [a EXCEPT !.given = <<source_x, source_y>>,
              !.p = post_init_source_point(
                        IF a.entry = "export_simulation"
                        THEN export_main_source_point(source_x, source_y)
                        ELSE main_source_point(source_x, source_y), a.nx, a.ny)]

\* ------------------------------------------------- the start of a run
\* fields that hold the values an earlier run left in them
used_fields(nx, ny) ==
    <<[shape |-> <<nx, ny + 1>>, data |-> [q \in Idx2(nx, ny + 1) |-> q[1] + q[2] + 1]],
      [shape |-> <<nx + 1, ny>>, data |-> [q \in Idx2(nx + 1, ny) |-> q[1] - 2 * q[2]]],
      [shape |-> <<nx, ny>>, data |-> [q \in Idx2(nx, ny) |-> 3 + q[1] * q[2]]]>>

\* the unit tests' set-up: uniform environment, uniform conductivity, alpha = 1
test_evolution(a) ==
    LET eps == np_full2(a.nx, a.ny, 1)
        mu == np_full2(a.nx, a.ny, 1)
        uniform(zero, v) == [i \in 1 .. 4 |-> [zero[i] EXCEPT !.data = [q \in DOMAIN zero[i].data |-> v]]]
        sigmas == uniform(make_sigmas(a.nx, a.ny), a.loss)
        alpha == uniform(make_sigmas(a.nx, a.ny), 10)
    IN  [raised |-> "",
         fields |-> IF a.used THEN used_fields(a.nx, a.ny) ELSE make_fields(a.nx, a.ny),
         aux_fields |-> CASE a.pml = "bpml" -> bpml_make_auxiliary_fields(a.nx, a.ny)
                          [] a.pml = "cpml" -> cpml_make_auxiliary_fields(a.nx, a.ny)
                          [] OTHER -> <<>>,
         constants |-> CASE a.pml = "bpml" -> bpml_calculate_constants(eps, mu, sigmas, a.dx, a.dy, a.dt)
                         [] a.pml = "cpml" -> cpml_calculate_constants(eps, mu, a.dx, a.dy, a.dt)
                         [] OTHER -> no_pml_calculate_constants(a.dx, a.dy, a.dt),
         aux_constants |-> IF a.pml = "cpml" THEN cpml_recursion(alpha, sigmas, a.dx, a.dy, a.dt)
                           ELSE <<>>,
         history |-> np_full3(a.nx, a.ny, a.nt, a.garbage)]

call(a) ==
    CASE a.pml = "no" -> call_npml(a.nx, a.ny, a.nt, a.dx, a.dy, a.dt)
      [] a.pml = "bpml" -> call_bpml(a.nx, a.ny, a.nt, a.dx, a.dy, a.dt, a.pmlc, <<"float", a.s>>)
      [] OTHER -> call_cpml(a.nx, a.ny, a.nt, a.dx, a.dy, a.dt, a.pmlc)

\* tests.normal_test: an unknown pml prints a message and goes on to plot_2d(history, nt)
normal_test(a) ==
    CASE a.pml = "no" -> call_npml(a.nx, a.ny, a.nt, a.dx, a.dy, a.dt)
      [] a.pml = "bpml" -> call_bpml(a.nx, a.ny, a.nt, a.dx, a.dy, a.dt, a.pmlc, <<"float", 0>>)
      [] a.pml = "cpml" -> call_cpml(a.nx, a.ny, a.nt, a.dx, a.dy, a.dt, a.pmlc)
      [] OTHER -> Raised("UnboundLocalError")

\* tests.pml_test: the bpml branch passes (..., pmlc, 0, source); an unknown pml (and
\* "no") prints a message and goes on to call thing(nx, ny, p)
pml_test(a) ==
    CASE a.pml = "cpml" -> call_cpml(a.nx, a.ny, a.nt, a.dx, a.dy, a.dt, a.pmlc)
      [] a.pml = "bpml" -> call_bpml(a.nx, a.ny, a.nt, a.dx, a.dy, a.dt, a.pmlc, <<"function", 0>>)
      [] OTHER -> Raised("UnboundLocalError")

export_simulation(a) ==
    CASE a.pml = "no" -> call_npml(a.nx, a.ny, a.nt, a.dx, a.dy, a.dt)
      [] a.pml = "bpml" -> call_bpml(a.nx, a.ny, a.nt, a.dx, a.dy, a.dt, a.pmlc, <<"float", 0>>)
      [] a.pml = "cpml" -> call_cpml(a.nx, a.ny, a.nt, a.dx, a.dy, a.dt, a.pmlc)
      [] OTHER -> Raised("ValueError")

start(a) ==
    CASE a.entry = "evolution" -> test_evolution(a)
      [] a.entry = "call" -> call(a)
      [] a.entry = "normal_test" -> normal_test(a)
      [] a.entry = "pml_test" -> pml_test(a)
      [] OTHER -> export_simulation(a)

\* fields, eps, mu, sigmas, history = call_common(...) in call_bpml and call_cpml:
\* the profile the caller goes on with, <<>> when call_common raised or was not called
profile(a) ==
    LET got(c) == IF c.raised # "" THEN <<>> ELSE c.sigmas
    IN  IF a.entry # "evolution" /\ a.pml \in {"bpml", "cpml"}
        THEN got(call_common(a.nx, a.ny, a.nt, a.dx, a.dy, a.pmlc))
        ELSE <<>>

\* the exceptions that leave the entry point when kind is raised inside it:
\* export_simulation catches every Exception and calls sys.exit(1)
propagate(a, kind) ==
    IF a.entry = "export_simulation" THEN <<kind, "SystemExit">> ELSE <<kind>>

\* ------------------------------------------------------------------- state
VARIABLES
    active,         \* the runs that were started
    args,           \* the arguments of each run's entry point
    pc,             \* where each run stands: start, H, S, E, W, return, done, raised
    t,              \* the loop variable of evolution
    ex, ey,         \* fields[0], fields[1]: evolution writes them in place
    fields_hz,      \* fields[2], the Hz buffer of the caller
    hz,             \* the array the local name hz of evolution is bound to
    aux_fields,     \* the arrays the local names hzx, hzy / pex, pey, phx, phy are bound to
    constants, aux_constants,
    sigmas,         \* the conductivity profile call_common returned to the caller, <<>> if none
    history,        \* the history buffer handed to evolution
    result,         \* what the entry point returned, <<>> before
    err,            \* the exceptions that left the entry point, in order
    log,            \* what evolution did so far: <<"H" | "source" | "E" | "history", t>>
    hz_after        \* Hz as it stood after the Hz update and the injection of each step

vars == <<active, args, pc, t, ex, ey, fields_hz, hz, aux_fields, constants, aux_constants,
          sigmas, history, result, err, log, hz_after>>

Idle == [entry |-> "idle"]

InitWith(as) ==
    /\ active = {r \in Runs : as[r] # Idle}
    /\ args = as
    /\ pc = [r \in Runs |-> IF as[r] = Idle THEN "idle" ELSE "start"]
    /\ t = [r \in Runs |-> 0]
    /\ ex = [r \in Runs |-> <<>>]
    /\ ey = [r \in Runs |-> <<>>]
    /\ fields_hz = [r \in Runs |-> <<>>]
    /\ hz = [r \in Runs |-> <<>>]
    /\ aux_fields = [r \in Runs |-> <<>>]
    /\ constants = [r \in Runs |-> <<>>]
    /\ aux_constants = [r \in Runs |-> <<>>]
    /\ sigmas = [r \in Runs |-> <<>>]
    /\ history = [r \in Runs |-> <<>>]
    /\ result = [r \in Runs |-> <<>>]
    /\ err = [r \in Runs |-> <<>>]
    /\ log = [r \in Runs |-> <<>>]
    /\ hz_after = [r \in Runs |-> <<>>]

\* a direct call passes the source point; the entry points of the command line resolve
\* it from their options. Grids with a dimension below 1 are handed to the callers and
\* the dispatchers only.
Init ==
    \E v \in Variants, nx \in -1 .. MaxN, ny \in -1 .. MaxN, nt \in 0 .. MaxNt :
    \E d \in Spacings, dt \in TimeSteps :
        /\ v.entry \in Dispatchers => d = <<1, 1>>
        /\ nx < 1 \/ ny < 1 =>
              v.entry # "evolution" /\ d = <<1, 1>> /\ v.pmlc = <<1, 6, 1>> /\ v.pml \in Engines
        /\ IF v.entry \in Dispatchers
           THEN \E source_x \in Options(nx), source_y \in Options(ny) :
                    InitWith([r \in Runs |->
                        IF r = 1
                        THEN Parameters(Args(v, nx, ny, nt, d, dt, <<0, 0>>, 0), source_x, source_y)
                        ELSE Idle])
           ELSE \E p \in SourcePoints(nx, ny) :
                    /\ nx < 1 \/ ny < 1 => p = <<0, 0>>
                    /\ InitWith([r \in Runs |-> IF r = 1 THEN Args(v, nx, ny, nt, d, dt, p, 0) ELSE Idle])

\* ----------------------------------------------------------------- actions
\* the entry point runs up to the first statement of evolution's loop
Call(r) ==
    /\ r \in active
    /\ pc[r] = "start"
    /\ \E c \in {start(args[r])} :
           IF c.raised # ""
           THEN /\ pc' = [pc EXCEPT ![r] = "raised"]
                /\ err' = [err EXCEPT ![r] = propagate(args[r], c.raised)]
                /\ UNCHANGED <<ex, ey, fields_hz, hz, aux_fields, constants, aux_constants, history>>
           ELSE /\ pc' = [pc EXCEPT ![r] = IF args[r].nt > 0 THEN "H" ELSE "return"]
                /\ ex' = [ex EXCEPT ![r] = c.fields[1]]
                /\ ey' = [ey EXCEPT ![r] = c.fields[2]]
                /\ fields_hz' = [fields_hz EXCEPT ![r] = c.fields[3]]
                /\ hz' = [hz EXCEPT ![r] = c.fields[3]]
                /\ aux_fields' = [aux_fields EXCEPT ![r] = c.aux_fields]
                /\ constants' = [constants EXCEPT ![r] = c.constants]
                /\ aux_constants' = [aux_constants EXCEPT ![r] = c.aux_constants]
                /\ history' = [history EXCEPT ![r] = c.history]
                /\ err' = err
    /\ sigmas' = [sigmas EXCEPT ![r] = profile(args[r])]
    /\ t' = [t EXCEPT ![r] = 0]
    /\ UNCHANGED <<active, args, result, log, hz_after>>

\* the order of the statements of the loop body with the source injected last
after_source_last(stmt) ==
    CASE stmt = "H" -> "E"
      [] stmt = "E" -> "S"
      [] stmt = "S" -> "W"
      [] OTHER -> "H"

\* the statement that follows stmt in the loop body: Hz update, source injection,
\* E updates, history write
after(stmt) ==
    CASE stmt = "H" -> "S"
      [] stmt = "S" -> "E"
      [] stmt = "E" -> "W"
      [] OTHER -> "H"

\* an Hz update on fields kept in one place for all runs: Hz and the auxiliary fields
\* are those of run 1 once it has started
h_step_shared(r) ==
    LET o == IF pc[1] \in {"H", "S", "E", "W", "return", "done"} THEN 1 ELSE r
    IN  CASE args[r].pml = "bpml" ->
               LET hzx == bpml_update_hzx(ey[r], aux_fields[o][1], constants[r])
                   hzy == bpml_update_hzy(ex[r], aux_fields[o][2], constants[r])
               IN  [hz |-> bpml_update_hz(hzx, hzy), aux_fields |-> <<hzx, hzy>>]
          [] args[r].pml = "cpml" ->
               LET phy == cpml_update_phy(ex[r], aux_fields[r][4], aux_constants[r])
                   phx == cpml_update_phx(ey[r], aux_fields[r][3], aux_constants[r])
               IN  [hz |-> cpml_update_hz(ex[r], ey[r], hz[o], phx, phy, constants[r]),
                    aux_fields |-> <<aux_fields[r][1], aux_fields[r][2], phx, phy>>]
          [] OTHER ->
               [hz |-> no_pml_update_hz(ex[r], ey[r], hz[o], constants[r]),
                aux_fields |-> aux_fields[r]]

\* the Hz update of one step of an engine on the arrays f = [ex, ey, hz, aux_fields]
\* with the coefficients c = [constants, aux_constants]
h_update(engine, f, c) ==
    CASE engine = "bpml" ->
           LET hzx == bpml_update_hzx(f.ey, f.aux_fields[1], c.constants)
               hzy == bpml_update_hzy(f.ex, f.aux_fields[2], c.constants)
           IN  [hz |-> bpml_update_hz(hzx, hzy), aux_fields |-> <<hzx, hzy>>]
      [] engine = "cpml" ->
           LET phy == cpml_update_phy(f.ex, f.aux_fields[4], c.aux_constants)
               phx == cpml_update_phx(f.ey, f.aux_fields[3], c.aux_constants)
           IN  [hz |-> cpml_update_hz(f.ex, f.ey, f.hz, phx, phy, c.constants),
                aux_fields |-> <<f.aux_fields[1], f.aux_fields[2], phx, phy>>]
      [] OTHER ->
           [hz |-> no_pml_update_hz(f.ex, f.ey, f.hz, c.constants), aux_fields |-> f.aux_fields]

\* the arrays a run's names are bound to, and its coefficients
arrays(r) == [ex |-> ex[r], ey |-> ey[r], hz |-> hz[r], aux_fields |-> aux_fields[r]]

coefficients(r) == [constants |-> constants[r], aux_constants |-> aux_constants[r]]

\* the Hz update of step t; the names it assigns are bound to fresh arrays
h_step(r) == h_update(args[r].pml, arrays(r), coefficients(r))

UpdateH(r) ==
    /\ r \in active
    /\ pc[r] = "H"
    /\ \E h \in {h_step(r)} :
           /\ hz' = [hz EXCEPT ![r] = h.hz]
           /\ aux_fields' = [aux_fields EXCEPT ![r] = h.aux_fields]
    /\ log' = [log EXCEPT ![r] = Append(@, <<"H", t[r]>>)]
    /\ pc' = [pc EXCEPT ![r] = after("H")]
    /\ UNCHANGED <<sigmas, active, args, t, ex, ey, fields_hz, constants, aux_constants, history,
                   result, err, hz_after>>

\* a soft source, hz[sourcepoint] += value, in place of the hard one
soft_source(a, sourcepoint, value) ==
    [a EXCEPT !.data[<<np_index(sourcepoint[1], a.shape[1]), np_index(sourcepoint[2], a.shape[2])>>] =
        @ + value]

\* a blended source, hz[sourcepoint] = (hz[sourcepoint] + value) / 2
blended_source(a, sourcepoint, value) ==
    [a EXCEPT !.data[<<np_index(sourcepoint[1], a.shape[1]), np_index(sourcepoint[2], a.shape[2])>>] =
        (@ + value) \div 2]

\* hz[sourcepoint] = value
hard_source(a, sourcepoint, value) ==
    [a EXCEPT !.data[<<np_index(sourcepoint[1], a.shape[1]), np_index(sourcepoint[2], a.shape[2])>>] = value]

\* hz[sourcepoint] = source(t): the callback runs, then the store resolves the index
InjectSource(r) ==
    /\ r \in active
    /\ pc[r] = "S"
    /\ log' = [log EXCEPT ![r] = Append(@, <<"source", t[r]>>)]
    /\ IF \/ np_index(args[r].p[1], hz[r].shape[1]) = -1
          \/ np_index(args[r].p[2], hz[r].shape[2]) = -1
       THEN /\ pc' = [pc EXCEPT ![r] = "raised"]
            /\ err' = [err EXCEPT ![r] = propagate(args[r], "IndexError")]
            /\ UNCHANGED <<hz, hz_after>>
       ELSE /\ hz' = [hz EXCEPT ![r] = hard_source(@, args[r].p, source(args[r].source, t[r]))]
            /\ hz_after' = [hz_after EXCEPT ![r] = Append(@, hz'[r])]
            /\ pc' = [pc EXCEPT ![r] = after("S")]
            /\ err' = err
    /\ UNCHANGED <<sigmas, active, args, t, ex, ey, fields_hz, aux_fields, constants, aux_constants,
                   history, result>>

\* the E updates of one step of an engine on the arrays f with the coefficients c
e_update(engine, f, c) ==
    CASE engine = "bpml" ->
           [ex |-> bpml_update_ex(f.ex, f.hz, c.constants),
            ey |-> bpml_update_ey(f.ey, f.hz, c.constants),
            aux_fields |-> f.aux_fields]
      [] engine = "cpml" ->
           LET pey == cpml_update_pey(f.hz, f.aux_fields[2], c.aux_constants)
               pex == cpml_update_pex(f.hz, f.aux_fields[1], c.aux_constants)
           IN  [ex |-> cpml_update_ex(f.ex, f.hz, pey, c.constants),
                ey |-> cpml_update_ey(f.ey, f.hz, pex, c.constants),
                aux_fields |-> <<pex, pey, f.aux_fields[3], f.aux_fields[4]>>]
      [] OTHER ->
           [ex |-> no_pml_update_ex(f.ex, f.hz, c.constants),
            ey |-> no_pml_update_ey(f.ey, f.hz, c.constants),
            aux_fields |-> f.aux_fields]

\* the E updates on an Hz kept in one place for all runs: that of run 1 once it has started
e_step_shared(r) ==
    LET o == IF pc[1] \in {"H", "S", "E", "W", "return", "done"} THEN 1 ELSE r
    IN  e_update(args[r].pml, [arrays(r) EXCEPT !.hz = hz[o]], coefficients(r))

\* the E updates made from the Hz the step before left: for step 0 the Hz of the call
e_step_stale(r) ==
    e_update(args[r].pml,
             [arrays(r) EXCEPT !.hz = IF t[r] = 0 THEN fields_hz[r] ELSE hz_after[r][t[r]]],
             coefficients(r))

\* the E updates of step t, written into the caller's Ex and Ey
e_step(r) == e_update(args[r].pml, arrays(r), coefficients(r))

UpdateE(r) ==
    /\ r \in active
    /\ pc[r] = "E"
    /\ \E e \in {e_step(r)} :
           /\ ex' = [ex EXCEPT ![r] = e.ex]
           /\ ey' = [ey EXCEPT ![r] = e.ey]
           /\ aux_fields' = [aux_fields EXCEPT ![r] = e.aux_fields]
    /\ log' = [log EXCEPT ![r] = Append(@, <<"E", t[r]>>)]
    /\ pc' = [pc EXCEPT ![r] = after("E")]
    /\ UNCHANGED <<sigmas, active, args, t, fields_hz, hz, constants, aux_constants, history,
                   result, err, hz_after>>

\* history[:, :, :t + 1] = hz[:, :, None]: every slice up to t takes the current Hz
record_history_upto(h, k, a) ==
    [h EXCEPT !.data = [q \in DOMAIN h.data |-> IF q[3] <= k THEN At(a, q[1], q[2]) ELSE h.data[q]]]

\* history[:, :, t - 1] = hz: one slice too early (the index -1 is the last slice)
record_history_prev(h, k, a) ==
    [h EXCEPT !.data = [q \in DOMAIN h.data |->
        IF q[3] = np_index(k - 1, h.shape[3]) THEN At(a, q[1], q[2]) ELSE h.data[q]]]

\* history[:, :, t] = hz
record_history(h, k, a) ==
    [h EXCEPT !.data = [q \in DOMAIN h.data |-> IF q[3] = k THEN At(a, q[1], q[2]) ELSE h.data[q]]]

Record(r) ==
    /\ r \in active
    /\ pc[r] = "W"
    /\ history' = [history EXCEPT ![r] = record_history(@, t[r], hz[r])]
    /\ log' = [log EXCEPT ![r] = Append(@, <<"history", t[r]>>)]
    /\ t' = [t EXCEPT ![r] = @ + 1]
    /\ pc' = [pc EXCEPT ![r] = IF t[r] + 1 < args[r].nt THEN after("W") ELSE "return"]
    /\ UNCHANGED <<sigmas, active, args, ex, ey, fields_hz, hz, aux_fields, constants, aux_constants,
                   result, err, hz_after>>

\* return history, and what the entry point does with it: plot_2d and export_simulation
\* take np.max of it (ValueError on an empty array); pml_test goes on to the run of
\* three times the size
Return(r) ==
    /\ r \in active
    /\ pc[r] = "return"
    /\ IF args[r].entry = "pml_test" /\ ~args[r].big
       THEN /\ args' = [args EXCEPT ![r].nx = 3 * @, ![r].ny = 3 * @,
                                    ![r].p = <<3 * @[1], 3 * @[2]>>, ![r].big = TRUE]
            /\ pc' = [pc EXCEPT ![r] = "start"]
            /\ UNCHANGED <<result, err>>
       ELSE IF args[r].entry \in Dispatchers /\ args[r].nt = 0
       THEN /\ pc' = [pc EXCEPT ![r] = "raised"]
            /\ err' = [err EXCEPT ![r] = <<"ValueError">>]
            /\ UNCHANGED <<args, result>>
       ELSE /\ pc' = [pc EXCEPT ![r] = "done"]
            /\ result' = [result EXCEPT ![r] = history[r]]
            /\ UNCHANGED <<args, err>>
    /\ UNCHANGED <<sigmas, active, t, ex, ey, fields_hz, hz, aux_fields, constants, aux_constants,
                   history, log, hz_after>>

Next ==
    \E r \in Runs :
        \/ Call(r)
        \/ UpdateH(r)
        \/ InjectSource(r)
        \/ UpdateE(r)
        \/ Record(r)
        \/ Return(r)

Spec == Init /\ [][Next]_vars

\* two runs of evolution side by side on the same arguments; the history buffer handed
\* to the second may hold other values than the first's
PairVariants == {v \in Variants : v.entry = "evolution" /\ v.source = "simple_sin_source"}

Garbage == {0, 7}

InitPair ==
    \E v \in PairVariants, nx \in 1 .. MaxN, nt \in 0 .. MaxNt, dt \in TimeSteps, g \in Garbage :
    \E p \in {<<nx \div 2, MaxN \div 2>>, <<nx, 0>>} :
        InitWith([r \in Runs |-> Args(v, nx, MaxN, nt, <<1, 2>>, dt, p, IF r = 2 THEN g ELSE 0)])

SpecPair == InitPair /\ [][Next]_vars

\* ------------------------------------------------------------- properties
\* the positions of a run inside evolution, and after it returned
\* two runs on different arguments side by side: calls of call_npml, call_bpml, call_cpml
\* and of the engines of the absorbing layers, on grids of the same size
MixVariants ==
    {v \in Variants :
        /\ v.source = "simple_sin_source" /\ v.pmlc = <<1, 6, 1>> /\ ~v.used
        /\ \/ v.entry = "call"
           \/ v.entry = "evolution" /\ v.pml # "no" /\ v.loss = 1}

InitMix ==
    \E v \in MixVariants, w \in MixVariants, nx \in 1 .. MaxN, nt \in 0 .. MaxNt :
        InitWith([r \in Runs |->
            IF r = 1
            THEN Args(v, nx, MaxN, nt, <<1, 2>>, 4, <<nx \div 2, MaxN \div 2>>, 0)
            ELSE Args(w, nx, MaxN, MaxNt, <<1, 1>>, 4, <<0, 0>>, 0)])

SpecMix == InitMix /\ [][Next]_vars

\* ------------------------------------------------- one run taken by itself
\* a[sourcepoint] = value for each of the split components hzx, hzy
split_source(aux, sourcepoint, value) ==
    <<hard_source(aux[1], sourcepoint, value), hard_source(aux[2], sourcepoint, value)>>

\* what the names of evolution are bound to once the loop body ran k times from the
\* set-up c: Hz update, source injection, E updates, history write. The variant "split"
\* is a Berenger engine whose injection writes the split components as well.
RECURSIVE loop(_, _, _, _)
loop(a, c, k, variant) ==
    IF k = 0
    THEN [ex |-> c.fields[1], ey |-> c.fields[2], hz |-> c.fields[3],
          aux_fields |-> c.aux_fields, history |-> c.history]
    ELSE LET value == source(a.source, k - 1)
             only(S) == CHOOSE x \in S : TRUE
             \* the array a with every element computed
             computed(u) == [shape |-> u.shape, data |-> u.data @@ <<>>]
             write(s, injected, e) ==
                 [ex |-> computed(e.ex), ey |-> computed(e.ey), hz |-> injected,
                  aux_fields |-> [i \in DOMAIN e.aux_fields |-> computed(e.aux_fields[i])] @@ <<>>,
                  history |-> computed(record_history(s.history, k - 1, injected))]
             electric(s, injected, aux) ==
                 only({write(s, injected, e) :
                         e \in {e_update(a.pml, f, c) :
                                   f \in {[ex |-> s.ex, ey |-> s.ey, hz |-> injected,
                                           aux_fields |-> aux]}}})
             inject(s, h) ==
                 only({electric(s, injected, aux) :
                         injected \in {hard_source(h.hz, a.p, value)},
                         aux \in {IF variant = "split"
                                  THEN split_source(h.aux_fields, a.p, value)
                                  ELSE h.aux_fields}})
             body(s) == only({inject(s, h) : h \in {h_update(a.pml, s, c)}})
         IN  only({body(s) : s \in {loop(a, c, k - 1, variant)}})

\* what evolution was called with in run r: the fields, auxiliary fields and history
\* buffer of the call, and the coefficients
called_with(r) ==
    [fields |-> IF args[r].used THEN used_fields(args[r].nx, args[r].ny)
                ELSE make_fields(args[r].nx, args[r].ny),
     aux_fields |-> CASE args[r].pml = "bpml" -> bpml_make_auxiliary_fields(args[r].nx, args[r].ny)
                      [] args[r].pml = "cpml" -> cpml_make_auxiliary_fields(args[r].nx, args[r].ny)
                      [] OTHER -> <<>>,
     constants |-> constants[r], aux_constants |-> aux_constants[r],
     history |-> np_full3(args[r].nx, args[r].ny, args[r].nt, args[r].garbage)]

\* what the entry point of a run returns when nothing else runs, <<>> when it raises
alone(a) ==
    LET ran(c) ==
            IF c.raised # "" THEN <<>>
            ELSE IF a.nt > 0 /\ (np_index(a.p[1], a.nx) = -1 \/ np_index(a.p[2], a.ny) = -1) THEN <<>>
            ELSE loop(a, c, a.nt, "hard").history
    IN  CHOOSE h \in {ran(c) : c \in {start(a)}} : TRUE

Running == {"H", "S", "E", "W", "return", "done"}

\* the source point lies in 0 .. nx-1 by 0 .. ny-1
InRange(a) == a.p[1] \in 0 .. a.nx - 1 /\ a.p[2] \in 0 .. a.ny - 1

Evolving(r) == r \in active /\ pc[r] \in Running

\* C1 (hard source): in every engine, for an in-range source point, every slice t that
\* evolution has written holds source(t) at the source point, whatever the fields held
\* before the run, whatever the coefficients (with or without loss) and the earlier steps.
C1_HardSource ==
    \A r \in Runs :
        Evolving(r) /\ InRange(args[r]) =>
            \A k \in 0 .. t[r] - 1 :
                history[r].data[<<args[r].p[1], args[r].p[2], k>>] = source(args[r].source, k)

\* an engine with loss ran two steps on fields an earlier run left behind, and the
\* source was not zero at the second step
C1_Witness ==
    \E r \in Runs :
        /\ pc[r] = "done" /\ InRange(args[r]) /\ args[r].used /\ args[r].pml = "cpml"
        /\ t[r] >= 2 /\ source(args[r].source, 1) # 0
        /\ At(fields_hz[r], args[r].p[1], args[r].p[2]) # source(args[r].source, 0)

\* C2 (history shape): for every engine and every valid input (nx, ny >= 1, nt >= 0,
\* in-range source point) the run raises nothing and returns the history buffer it was
\* handed, of shape (nx, ny, nt), whether evolution is called directly or through
\* call_npml, call_bpml or call_cpml.
C2_HistoryShape ==
    \A r \in active :
        args[r].entry \in {"evolution", "call"} /\ InRange(args[r]) =>
            /\ pc[r] # "raised"
            /\ pc[r] = "done" =>
                 /\ result[r] = history[r]
                 /\ result[r].shape = <<args[r].nx, args[r].ny, args[r].nt>>

AllZero(a) == \A q \in DOMAIN a.data : a.data[q] = 0

\* zero conductivity everywhere, zero initial fields, a source that returns 0
ZeroPremise(a) ==
    /\ a.entry = "evolution" \/ (a.entry = "call" /\ a.pml = "no")
    /\ a.source = "null_source" /\ ~a.used /\ a.loss = 0 /\ a.garbage = 0

\* C3 (zero fixed point): in every engine, with zero conductivity, zero initial Ex, Ey, Hz
\* and auxiliary fields and a source that returns 0 for every t, every field, every
\* auxiliary field and every entry of history is zero after every statement of every step.
C3_ZeroFixedPoint ==
    \A r \in Runs :
        Evolving(r) /\ ZeroPremise(args[r]) =>
            /\ AllZero(ex[r]) /\ AllZero(ey[r]) /\ AllZero(hz[r]) /\ AllZero(history[r])
            /\ \A i \in DOMAIN aux_fields[r] : AllZero(aux_fields[r][i])

\* the Berenger engine ran two steps from zero on a grid with interior cells
C3_Witness ==
    \E r \in Runs :
        /\ pc[r] = "done" /\ ZeroPremise(args[r]) /\ args[r].pml = "bpml"
        /\ t[r] >= 2 /\ args[r].nx >= 2 /\ args[r].ny >= 2 /\ InRange(args[r])

\* both runs stand at the same statement of the same step
InStep == pc[1] = pc[2] /\ t[1] = t[2]

Writes(r) ==
    LET IsWrite(e) == e[1] = "history"
    IN  SelectSeq(log[r], IsWrite)

\* C5 (history bookkeeping): in every engine the slices are written one per step in the
\* order 0, 1, 2, ..., a slice not yet written still holds what the buffer held at the
\* call, a slice once written is never changed by a later statement, and nothing that
\* evolution computes depends on the contents of the buffer it was handed (two runs that
\* differ only in those contents agree on every field and on every written slice).
C5_Bookkeeping ==
    /\ [](\A r \in Runs : Evolving(r) =>
            /\ Writes(r) = [k \in 1 .. t[r] |-> <<"history", k - 1>>]
            /\ \A q \in DOMAIN history[r].data :
                 q[3] >= t[r] => history[r].data[q] = args[r].garbage)
    /\ [][\A r \in Runs : Evolving(r) =>
            \A q \in DOMAIN history[r].data :
                 q[3] < t[r] => history'[r].data[q] = history[r].data[q]]_vars
    /\ [](active = Runs /\ InStep /\ Evolving(1) =>
            /\ ex[1] = ex[2] /\ ey[1] = ey[2] /\ hz[1] = hz[2] /\ aux_fields[1] = aux_fields[2]
            /\ \A q \in DOMAIN history[1].data :
                 q[3] < t[1] => history[1].data[q] = history[2].data[q])

\* two runs whose buffers differed at the call both wrote two slices and returned the
\* same history
C5_Witness ==
    /\ active = Runs /\ args[1].garbage # args[2].garbage
    /\ pc[1] = "done" /\ pc[2] = "done" /\ t[1] >= 2
    /\ result[1] = result[2] /\ ~AllZero(result[1])

StepOrder == <<"H", "source", "E", "history">>

\* C6 (source callback): in every engine what evolution does is, step after step, the Hz
\* update, one call of the source with the step's number, the E updates, the history
\* write; so the source is called once per step with 0, 1, ... in that order, after the
\* Hz update and before the E updates of its step, nt times in a run that returns and
\* never when nt = 0.
C6_SourceCalls ==
    \A r \in active :
        ~args[r].big =>
            /\ \A i \in 1 .. Len(log[r]) :
                 log[r][i] = <<StepOrder[((i - 1) % 4) + 1], (i - 1) \div 4>>
            /\ pc[r] \in {"return", "done"} => Len(log[r]) = 4 * args[r].nt

\* the Berenger engine returned after two steps, the source called with 0 and then 1
C6_Witness ==
    \E r \in Runs :
        /\ pc[r] = "done" /\ args[r].pml = "bpml" /\ args[r].nt = 2
        /\ log[r][2] = <<"source", 0>> /\ log[r][6] = <<"source", 1>>

\* C7 (termination, populated history): a run of evolution on an in-range source point
\* never raises and never stops before it returns, takes no more than nt steps, returns
\* after exactly nt steps, and then slice t of the history it returns is Hz as it stood
\* after the updates of step t, for every t in 0 .. nt-1.
C7_TerminatesPopulated ==
    \A r \in Runs :
        Evolving(r) /\ InRange(args[r]) /\ args[r].entry \in {"evolution", "call"} =>
            /\ t[r] <= args[r].nt /\ Len(log[r]) <= 4 * args[r].nt
            /\ pc[r] = "done" \/ ENABLED Next
            /\ pc[r] \in {"return", "done"} =>
                 /\ t[r] = args[r].nt /\ Len(hz_after[r]) = args[r].nt
                 /\ \A q \in DOMAIN history[r].data :
                      history[r].data[q] = At(hz_after[r][q[3] + 1], q[1], q[2])
            /\ pc[r] = "done" => result[r] = history[r]

\* the convolutional engine returned two slices that differ
C7_Witness ==
    \E r \in Runs :
        /\ pc[r] = "done" /\ args[r].pml = "cpml" /\ args[r].nt = 2 /\ InRange(args[r])
        /\ hz_after[r][1] # hz_after[r][2]
        /\ \E q \in DOMAIN result[r].data : result[r].data[q] # 0

Abs(x) == IF x < 0 THEN -x ELSE x

\* the cell numpy resolves the source point to
Resolved(a) == <<np_index(a.p[1], a.nx), np_index(a.p[2], a.ny)>>

Manhattan(q, c) == Abs(q[1] - c[1]) + Abs(q[2] - c[2])

\* C8 (light cone): starting from zero fields, in every engine, every written slice t is
\* zero at every cell whose Manhattan distance from the source point exceeds t, and
\* slice 0 is source(0) at the source point and zero elsewhere.
C8_LightCone ==
    \A r \in Runs :
        Evolving(r) /\ ~args[r].used /\ args[r].garbage = 0 =>
            \A q \in DOMAIN history[r].data :
                q[3] < t[r] =>
                    /\ Manhattan(q, Resolved(args[r])) > q[3] => history[r].data[q] = 0
                    /\ q[3] = 0 /\ <<q[1], q[2]>> = Resolved(args[r]) =>
                         history[r].data[q] = source(args[r].source, 0)

\* after an impulse the excitation reached a neighbour of the source point at step 1,
\* and a cell two cells away is still zero
C8_Witness ==
    \E r \in Runs :
        /\ pc[r] = "done" /\ args[r].source = "impulse_source" /\ ~args[r].used /\ t[r] >= 2
        /\ \E q \in DOMAIN history[r].data :
             q[3] = 1 /\ Manhattan(q, Resolved(args[r])) = 1 /\ history[r].data[q] # 0
        /\ \E q \in DOMAIN history[r].data : q[3] = 1 /\ Manhattan(q, Resolved(args[r])) = 2

\* C9 (out-of-range source point): a source point with a coordinate outside 0 .. nx-1 by
\* 0 .. ny-1, negative coordinates included, is detected at setup, before any statement
\* of any step runs: the run never returns, evolution does nothing, no field and no
\* slice of history is written.
C9_DetectedAtSetup ==
    \A r \in active :
        args[r].entry \in {"evolution", "call"} /\ ~InRange(args[r]) /\ args[r].nt > 0 =>
            /\ log[r] = <<>>
            /\ pc[r] \notin {"return", "done"}
            /\ pc[r] \in Running => hz[r] = fields_hz[r]

\* the errors the program raises to reject a configuration
ConfigurationErrors == {"ValueError"}

\* C10 (unsupported engine identifier): in normal_test, pml_test and export_simulation an
\* identifier other than "no", "bpml", "cpml" is rejected as a configuration error before
\* any engine step runs: no engine is called, and the dispatcher ends with the error
\* of a rejected configuration.
C10_UnsupportedRejected ==
    \A r \in active :
        args[r].entry \in Dispatchers /\ args[r].pml \notin Engines =>
            /\ log[r] = <<>>
            /\ pc[r] \in {"start", "raised"}
            /\ pc[r] = "raised" => err[r][1] \in ConfigurationErrors

\* C11: a grid with a dimension below 1, zero included, is rejected by the allocation
\* and the set-up of a run: the call raises before evolution does anything. For positive
\* dimensions the run starts from three all-zero buffers of shapes (nx, ny + 1),
\* (nx + 1, ny) and (nx, ny).
C11_GridRejected ==
    \A r \in active :
        args[r].entry = "call" /\ pc[r] # "start" =>
            IF args[r].nx < 1 \/ args[r].ny < 1
            THEN pc[r] = "raised" /\ log[r] = <<>>
            ELSE pc[r] \in {"H", "return"} /\ log[r] = <<>> =>
                     /\ ex[r] = np_zeros2(args[r].nx, args[r].ny + 1)
                     /\ ey[r] = np_zeros2(args[r].nx + 1, args[r].ny)
                     /\ fields_hz[r] = np_zeros2(args[r].nx, args[r].ny)

\* C12: a PML thickness w with 2 * w >= min(nx, ny) is rejected at set-up, before any
\* conductivity profile is written and before any step: call_bpml and call_cpml raise
\* with no profile made, so that the bands of opposite edges never overlap.
C12_ThicknessRejected ==
    \A r \in active :
        /\ args[r].entry = "call" /\ args[r].pml \in {"bpml", "cpml"} /\ pc[r] # "start"
        /\ args[r].nx >= 1 /\ args[r].ny >= 1
        /\ 2 * args[r].pmlc[1] >= (IF args[r].nx < args[r].ny THEN args[r].nx ELSE args[r].ny)
        => pc[r] = "raised" /\ sigmas[r] = <<>> /\ log[r] = <<>>

\* C13: evolution writes the caller's Hz buffer in place: once step t - 1 is complete,
\* the buffer fields[2] the caller handed in equals history[:, :, t - 1], and after the
\* run it holds the final Hz.
C13_HzInPlace ==
    \A r \in active :
        pc[r] \in {"H", "return", "done"} /\ t[r] >= 1 =>
            \A q \in DOMAIN fields_hz[r].data :
                fields_hz[r].data[q] = history[r].data[<<q[1], q[2], t[r] - 1>>]

\* an array of the shape (n, m): its shape entry and the positions it holds values at
HasShape(a, n, m) == a.shape = <<n, m>> /\ DOMAIN a.data = Idx2(n, m)

C15_Independent ==
    (\A r \in active : pc[r] \in {"done", "raised"}) =>
        \A r \in active : result[r] = alone(args[r])

\* two calls of call_npml with different source points and spacings have both returned,
\* with different histories
C15_Witness ==
    /\ active = Runs /\ pc[1] = "done" /\ pc[2] = "done"
    /\ args[1].entry = "call" /\ args[2].entry = "call"
    /\ args[1].nt >= 2 /\ args[2].nt >= 2 /\ args[1].p # args[2].p
    /\ result[1] # <<>> /\ result[2] # <<>>
    /\ \E q \in DOMAIN result[1].data : q[3] = 1 /\ result[1].data[q] # result[2].data[q]

\* C16: the source point of a run started from the command line is the supplied
\* (source_x, source_y) whenever both are supplied, for every in-range value, 0
\* included; otherwise it is the grid centre (int(nx / 2), int(ny / 2)), which lies
\* inside the Hz grid for all nx, ny >= 1. This holds for both entry points.
C16_SourcePoint ==
    \A r \in active :
        args[r].entry \in Dispatchers /\ ~args[r].big /\ args[r].nx >= 1 /\ args[r].ny >= 1 =>
            LET source_x == args[r].given[1]
                source_y == args[r].given[2]
            IN  IF source_x # <<>> /\ source_y # <<>>
                THEN args[r].p = <<source_x[1], source_y[1]>>
                ELSE args[r].p = <<int_half(args[r].nx), int_half(args[r].ny)>> /\ InRange(args[r])

\* C18: the order of a step, in every engine: the Hz update of step t works on the Ex,
\* Ey that step t - 1 left, the source is then written into that Hz, the E updates work
\* on the Hz after the injection, and the history is written last. When a run stands
\* before the history write of step t, its Ex, Ey, Hz and auxiliary fields are those
\* that t + 1 passes of the loop body in this order give, the slices before t hold the
\* Hz after the injection of their steps, and slice t is not written yet.
C18_HBeforeE ==
    \A r \in Runs :
        Evolving(r) /\ pc[r] = "W" =>
            LET holds(c, f) ==
                    /\ hz[r] = f.hz /\ ex[r] = f.ex /\ ey[r] = f.ey
                    /\ aux_fields[r] = f.aux_fields
                    /\ \A q \in DOMAIN history[r].data :
                           history[r].data[q] = IF q[3] < t[r] THEN f.history.data[q]
                                                ELSE c.history.data[q]
            IN  \A c \in {called_with(r)} :
                    \A f \in {loop(args[r], c, t[r] + 1, "hard")} : holds(c, f)

\* a Berenger run stands before the history write of its second step: the Hz of this
\* step differs from that of the first, and the E updates have changed Ex
C18_Witness ==
    \E r \in Runs :
        /\ pc[r] = "W" /\ t[r] = 1 /\ args[r].pml = "bpml"
        /\ hz[r] # hz_after[r][1]
        /\ \E c \in {called_with(r)} : ex[r] # loop(args[r], c, 1, "hard").ex

\* the step whose injection Hz holds: step t between the injection and the history
\* write, step t - 1 once the loop body is complete; -1 before the first injection
Injected(r) ==
    IF pc[r] \in {"E", "W"} THEN t[r]
    ELSE IF pc[r] \in {"H", "return", "done"} THEN t[r] - 1
    ELSE -1

\* C19: the split bookkeeping of the Berenger engine: after the injection of every step,
\* and after every step, Hz equals hzx + hzy at every cell other than the source cell
\* and equals source(t) at the source cell; the injection writes neither split
\* component, so hzx and hzy at the source cell hold what the Hz update computed.
C19_SplitBookkeeping ==
    /\ [](\A r \in Runs :
            Evolving(r) /\ args[r].pml = "bpml" /\ Injected(r) >= 0 =>
                \A q \in DOMAIN hz[r].data :
                    hz[r].data[q] = IF q = Resolved(args[r])
                                    THEN source(args[r].source, Injected(r))
                                    ELSE aux_fields[r][1].data[q] + aux_fields[r][2].data[q])
    /\ [][\A r \in Runs :
            r \in active /\ args[r].pml = "bpml" /\ pc[r] = "S" => aux_fields'[r] = aux_fields[r]]_vars

\* a Berenger run has made two steps, and the source value it wrote at the source cell
\* differs from the sum of the split components there
C19_Witness ==
    \E r \in Runs :
        /\ pc[r] = "W" /\ t[r] = 1 /\ args[r].pml = "bpml" /\ InRange(args[r])
        /\ At(hz[r], args[r].p[1], args[r].p[2]) #
               At(aux_fields[r][1], args[r].p[1], args[r].p[2])
               + At(aux_fields[r][2], args[r].p[1], args[r].p[2])
        /\ \E q \in DOMAIN hz[r].data : q # args[r].p /\ hz[r].data[q] # 0

\* the direct calls of the Berenger engine the model starts, with a source point that
\* numpy resolves
BerengerCalls ==
    {Args(v, nx, ny, nt, d, 4, p, 0) :
        v \in {u \in Variants : u.entry = "evolution" /\ u.pml = "bpml"},
        nx \in 1 .. MaxN, ny \in 1 .. MaxN, nt \in 0 .. MaxNt, d \in Spacings,
        p \in {<<0, 0>>, <<-1, -1>>}}

\* C20 as stated: the split-field asymmetry is observable in the output: for some input
\* a Berenger engine that also writes the injected source value into hzx and hzy
\* returns a history different from the one the engine returns.
C20_Observable ==
    \E a \in BerengerCalls :
        \E c \in {test_evolution(a)} :
            loop(a, c, a.nt, "split").history # loop(a, c, a.nt, "hard").history

\* C20, amended: the asymmetry is not observable in the output. A Berenger engine that
\* also writes the injected source value into hzx and hzy returns the same history and
\* leaves the same Ex, Ey, Hz, for every input and every number of steps: Hz at the
\* source cell is overwritten on every step before anything reads it, and nothing else
\* reads hzx, hzy at the source cell.
C20_SplitUnobservable ==
    \A r \in Runs :
        pc[r] = "done" /\ args[r].pml = "bpml" =>
            \A c \in {called_with(r)} :
                \A variant \in {loop(args[r], c, args[r].nt, "split")} :
                    /\ result[r] = variant.history
                    /\ ex[r] = variant.ex /\ ey[r] = variant.ey /\ hz[r] = variant.hz

\* a Berenger run has returned after two steps with a non-zero source, and the variant
\* engine ends with split components other than the run's
C20_Witness ==
    \E r \in Runs :
        /\ pc[r] = "done" /\ args[r].pml = "bpml" /\ args[r].nt >= 2
        /\ args[r].source = "constant_source"
        /\ \E c \in {called_with(r)} : loop(args[r], c, t[r], "split").aux_fields # aux_fields[r]
        /\ \E q \in DOMAIN result[r].data : result[r].data[q] # 0 /\ <<q[1], q[2]>> # Resolved(args[r])

\* ------------------------------------------------ the coefficients of CPML
\* C21: in the Hz update of the CPML engine the x-difference of Ey is scaled by
\* dt / (dx * mu) and the y-difference of Ex by dt / (dy * mu), the coefficients chzx and
\* chzy of the NoPML engine, for every dx and dy (the environment of the runs is uniform)
C21_CoefficientOrder ==
    [][\A r \in active :
          pc[r] = "H" /\ pc'[r] = "S" /\ args[r].pml = "cpml" =>
              \A chzx \in {args[r].dt \div (args[r].dx * mu_0)}, chzy \in {args[r].dt \div (args[r].dy * mu_0)} :
                  /\ chzx = no_pml_calculate_constants(args[r].dx, args[r].dy, args[r].dt)[3]
                  /\ chzy = no_pml_calculate_constants(args[r].dx, args[r].dy, args[r].dt)[4]
                  /\ \A q \in DOMAIN hz[r].data :
                         hz'[r].data[q] =
                             hz[r].data[q]
                             - chzx * (At(ey[r], q[1] + 1, q[2]) - At(ey[r], q[1], q[2]))
                             + chzy * (At(ex[r], q[1], q[2] + 1) - At(ex[r], q[1], q[2]))
                             + constants[r][7].data[q]
                               * (aux_fields'[r][4].data[q] - aux_fields'[r][3].data[q])]_vars

\* ------------------------------------- the profile functions on their own
\* the functions of the set-up that are applied to conductivity arrays: common.add_loss
\* after common.pml, the set-up of callers.call_bpml, and cpml.cpml_constants
ProfileFunctions == {"add_loss", "call_bpml", "cpml_constants"}

\* grids smaller than the alpha ramp, between one and two ramps, and larger than two
ProfileGrids == {<<3, 3>>, <<4, 3>>, <<12, 15>>, <<22, 22>>}

\* (w, k, m): thickness, R0 = 10 ** -k, grading order
ProfileConfigs == {<<1, 6, 1>>, <<2, 6, 3>>, <<3, 6, 2>>, <<11, 6, 1>>}

\* the border add_loss is called with, and the conductivity it writes
LossWidths == {0, 1, 2}
Losses == {5}

InitProfile ==
    \E f \in ProfileFunctions, g \in ProfileGrids, c \in ProfileConfigs, d \in Spacings :
    \E w \in LossWidths, s \in Losses :
        /\ f # "add_loss" => w = 0
        /\ InitWith([r \in Runs |->
               IF r = 1
               THEN [entry |-> f, nx |-> g[1], ny |-> g[2], dx |-> d[1], dy |-> d[2], dt |-> 4,
                     pmlc |-> c, w |-> w, s |-> s]
               ELSE Idle])

\* sigmas = common.make_sigmas(nx, ny); sigmas = common.pml(sigmas, pmlc, dx, dy)
MakeProfile(r) ==
    /\ r \in active
    /\ pc[r] = "start"
    /\ \E made \in {pml(make_sigmas(args[r].nx, args[r].ny), args[r].pmlc, args[r].dx, args[r].dy)} :
           IF made.raised # ""
           THEN /\ pc' = [pc EXCEPT ![r] = "raised"]
                /\ err' = [err EXCEPT ![r] = <<made.raised>>]
                /\ UNCHANGED sigmas
           ELSE /\ pc' = [pc EXCEPT ![r] = "pml"]
                /\ sigmas' = [sigmas EXCEPT ![r] = made.sigmas]
                /\ err' = err
    /\ UNCHANGED <<active, args, t, ex, ey, fields_hz, hz, aux_fields, constants, aux_constants,
                   history, result, log, hz_after>>

\* sigmas = common.add_loss(sigmas, w, s); call_bpml passes the literal 10 for w
AddLoss(r) ==
    /\ r \in active
    /\ pc[r] = "pml"
    /\ args[r].entry \in {"add_loss", "call_bpml"}
    /\ sigmas' = [sigmas EXCEPT ![r] =
                     add_loss(@, IF args[r].entry = "call_bpml" THEN 10 ELSE args[r].w, args[r].s)]
    /\ pc' = [pc EXCEPT ![r] = "loss"]
    /\ UNCHANGED <<active, args, t, ex, ey, fields_hz, hz, aux_fields, constants, aux_constants,
                   history, result, err, log, hz_after>>

\* sigmas[2] *= mu / eps; sigmas[3] *= mu / eps
scale_magnetic(lossy, eps, mu) ==
    <<lossy[1], lossy[2],
      [lossy[3] EXCEPT !.data = [q \in DOMAIN lossy[3].data |->
          (lossy[3].data[q] * mu.data[q]) \div eps.data[q]]],
      [lossy[4] EXCEPT !.data = [q \in DOMAIN lossy[4].data |->
          (lossy[4].data[q] * mu.data[q]) \div eps.data[q]]]>>

\* the rest of the set-up of call_bpml: the magnetic conductivities are scaled, the
\* environment is built and the coefficients are derived from the conductivities
Derive(r) ==
    /\ r \in active
    /\ pc[r] = "loss"
    /\ args[r].entry = "call_bpml"
    /\ \E env \in {make_env(args[r].nx, args[r].ny)} :
       \E e \in {environment_problem_example(env[1], env[2],
                     scale_magnetic(sigmas[r], env[1], env[2]), args[r].dx, args[r].dy)} :
           IF e.raised # ""
           THEN /\ pc' = [pc EXCEPT ![r] = "raised"]
                /\ err' = [err EXCEPT ![r] = <<e.raised>>]
                /\ UNCHANGED <<sigmas, constants>>
           ELSE /\ pc' = [pc EXCEPT ![r] = "derived"]
                /\ sigmas' = [sigmas EXCEPT ![r] = e.sigmas]
                /\ constants' = [constants EXCEPT ![r] =
                       bpml_calculate_constants(e.eps, e.mu, e.sigmas, args[r].dx, args[r].dy, args[r].dt)]
                /\ err' = err
    /\ UNCHANGED <<active, args, t, ex, ey, fields_hz, hz, aux_fields, aux_constants,
                   history, result, log, hz_after>>

\* aux_constants = cpml.cpml_constants(nx, ny, sigmas, dx, dy, dt)
CpmlConstants(r) ==
    /\ r \in active
    /\ pc[r] = "pml"
    /\ args[r].entry = "cpml_constants"
    /\ \E k \in {cpml_constants(args[r].nx, args[r].ny, sigmas[r], args[r].dx, args[r].dy, args[r].dt)} :
           IF k.raised # ""
           THEN /\ pc' = [pc EXCEPT ![r] = "raised"]
                /\ err' = [err EXCEPT ![r] = <<k.raised>>]
                /\ UNCHANGED aux_constants
           ELSE /\ pc' = [pc EXCEPT ![r] = "constants"]
                /\ aux_constants' = [aux_constants EXCEPT ![r] = k.aux_constants]
                /\ err' = err
    /\ UNCHANGED <<active, args, t, ex, ey, fields_hz, hz, aux_fields, constants, sigmas,
                   history, result, log, hz_after>>

NextProfile ==
    \E r \in Runs :
        \/ MakeProfile(r)
        \/ AddLoss(r)
        \/ Derive(r)
        \/ CpmlConstants(r)

SpecProfile == InitProfile /\ [][NextProfile]_vars

\* ---------------------------------------------- properties of the profiles
\* whether position c of an array of the given shape lies in the band of w layers that
\* pml writes into sigmas[i - 1]: rows for sigma_x and sigma_mx, columns for sigma_y and
\* sigma_my
InBand(i, c, shape, w) ==
    LET axis == IF i \in {1, 3} THEN 1 ELSE 2
    IN  c[axis] < w \/ c[axis] >= shape[axis] - w

\* whether position c lies in the border of thickness w of an array of the given shape
InBorder(c, shape, w) ==
    \/ c[1] < w \/ c[1] >= shape[1] - w
    \/ c[2] < w \/ c[2] >= shape[2] - w

\* sigmamax = -math.log(r0) * (m + 1) * const.epsilon_0 * const.c / (2 * w * delta)
sigma_max(pmlc, dx, dy) ==
    (-math_log(pmlc[2]) * (pmlc[3] + 1) * eps_0 * 1)
        \div (2 * pmlc[1] * isqrt((dx * dx + dy * dy) \div 2))

\* C22: for every grid size cpml_constants sets alpha to (i + 1) / 10 at the i-th cell
\* from an edge, i = 0 .. 9, and to 1 at every other cell (alpha is held in tenths)
C22_AlphaRamp ==
    \A r \in active :
        args[r].entry = "cpml_constants" /\ pc[r] \in {"constants", "raised"} /\ sigmas[r] # <<>> =>
            \A al \in {cpml_alpha(args[r].nx, args[r].ny)} :
                /\ al.raised = ""
                /\ \A i \in 1 .. 4 : \A c \in DOMAIN al.alpha[i].data :
                       \A axis \in {IF i \in {1, 3} THEN 1 ELSE 2} :
                       \A depths \in {{c[axis], al.alpha[i].shape[axis] - 1 - c[axis]}} :
                           /\ \A d \in depths \cap (0 .. AlphaCells - 1) : al.alpha[i].data[c] = d + 1
                           /\ depths \cap (0 .. AlphaCells - 1) = {} => al.alpha[i].data[c] = 10

\* C23: add_loss(sigmas, w, s) sets sigma_x and sigma_y to s on every point outside the
\* border of thickness w, for every w >= 0, and leaves the border and both magnetic
\* arrays unchanged
C23_AddLoss ==
    [][\A r \in active :
          args[r].entry = "add_loss" /\ pc[r] = "pml" /\ pc'[r] = "loss" =>
              /\ \A i \in {1, 2} : \A c \in DOMAIN sigmas[r][i].data :
                     sigmas'[r][i].data[c] =
                         IF InBorder(c, sigmas[r][i].shape, args[r].w)
                         THEN sigmas[r][i].data[c] ELSE args[r].s
              /\ sigmas'[r][3] = sigmas[r][3]
              /\ sigmas'[r][4] = sigmas[r][4]]_vars

\* C24: in call_bpml, for every thickness w, the graded electric conductivities of all w
\* layers of the band reach the derivation of the coefficients as pml computed them
C24_BandKept ==
    [][\A r \in active :
          args[r].entry = "call_bpml" /\ pc[r] \in {"pml", "loss"} /\ pc'[r] \in {"loss", "derived"} =>
              \A i \in {1, 2} : \A c \in DOMAIN sigmas[r][i].data :
                  InBand(i, c, sigmas[r][i].shape, args[r].pmlc[1]) =>
                      sigmas'[r][i].data[c] = sigmas[r][i].data[c]]_vars

\* C25: after pml on all-zero arrays every entry outside the band of w layers of its
\* array is zero
C25_ZeroOutsideBand ==
    \A r \in active :
        pc[r] = "pml" =>
            \A i \in 1 .. 4 : \A c \in DOMAIN sigmas[r][i].data :
                ~InBand(i, c, sigmas[r][i].shape, args[r].pmlc[1]) => sigmas[r][i].data[c] = 0

C25_Witness ==
    \E r \in active :
        /\ pc[r] = "pml"
        /\ args[r].nx = 22 /\ args[r].pmlc = <<2, 6, 3>>
        /\ \A i \in 1 .. 4 : sigmas[r][i].data[<<1, 1>>] # 0 /\ sigmas[r][i].data[<<2, 2>>] = 0
        /\ sigmas[r][1].data[<<19, 5>>] # 0 /\ sigmas[r][1].data[<<18, 5>>] = 0

\* C26: for every w >= 1 the conductivity pml assigns never exceeds sigma_max and does
\* not decrease from the innermost layer of the band to the outer edge
C26_GradingBound ==
    \A r \in active :
        pc[r] = "pml" =>
            \A i \in 1 .. 4 : \A c \in DOMAIN sigmas[r][i].data :
                \A axis \in {IF i \in {1, 3} THEN 1 ELSE 2} :
                    /\ sigmas[r][i].data[c] >= 0
                    /\ sigmas[r][i].data[c] <= sigma_max(args[r].pmlc, args[r].dx, args[r].dy)
                    /\ c[axis] + 1 < args[r].pmlc[1] /\ 2 * args[r].pmlc[1] <= sigmas[r][i].shape[axis] =>
                           sigmas[r][i].data[c] >=
                               sigmas[r][i].data[IF axis = 1 THEN <<c[1] + 1, c[2]>> ELSE <<c[1], c[2] + 1>>]

\* ------------------------------------------------ the loop implementation
\* what the names of no_pml.loop_evolution are bound to once the body of its loop ran k
\* times: the E updates from the Hz of the step before, the Hz update in place, the
\* source injection and the history write, each a loop over single cells
RECURSIVE loop_evolution_steps(_, _, _, _, _, _, _, _)
loop_evolution_steps(nx, ny, k, fields, coeffs, hist, sourcepoint, src) ==
    IF k = 0
    THEN [ex |-> fields[1], ey |-> fields[2], hz |-> fields[3], hist |-> hist]
    ELSE LET cex == coeffs[1]
             cey == coeffs[2]
             chx == coeffs[3]
             chy == coeffs[4]
             only(S) == CHOOSE x \in S : TRUE
             computed(u) == [shape |-> u.shape, data |-> u.data @@ <<>>]
             \* for i in range(nx): for j in range(1, ny - 1):
             \*     ex[i, j] = ex[i, j] + cex * (hz[i, j] - hz[i, j - 1])
             update_ex(s) ==
                 computed([s.ex EXCEPT !.data = [q \in DOMAIN s.ex.data |->
                     IF q[1] \in 0 .. nx - 1 /\ q[2] \in 1 .. ny - 2
                     THEN s.ex.data[q] + cex * (At(s.hz, q[1], q[2]) - At(s.hz, q[1], q[2] - 1))
                     ELSE s.ex.data[q]]])
             \* for i in range(1, nx - 1): for j in range(ny):
             \*     ey[i, j] = ey[i, j] - cey * (hz[i, j] - hz[i - 1, j])
             update_ey(s) ==
                 computed([s.ey EXCEPT !.data = [q \in DOMAIN s.ey.data |->
                     IF q[1] \in 1 .. nx - 2 /\ q[2] \in 0 .. ny - 1
                     THEN s.ey.data[q] - cey * (At(s.hz, q[1], q[2]) - At(s.hz, q[1] - 1, q[2]))
                     ELSE s.ey.data[q]]])
             \* for i in range(nx): for j in range(ny):
             \*     hz[i, j] = hz[i, j] + chy * (ex[i, j + 1] - ex[i, j]) - chx * (ey[i + 1, j] - ey[i, j])
             update_hz(s, e_x, e_y) ==
                 computed([s.hz EXCEPT !.data = [q \in DOMAIN s.hz.data |->
                     IF q[1] \in 0 .. nx - 1 /\ q[2] \in 0 .. ny - 1
                     THEN s.hz.data[q]
                          + chy * (At(e_x, q[1], q[2] + 1) - At(e_x, q[1], q[2]))
                          - chx * (At(e_y, q[1] + 1, q[2]) - At(e_y, q[1], q[2]))
                     ELSE s.hz.data[q]]])
             \* hz[sourcepoint] = source(t); history[i, j, t] = hz[i, j] for every i, j
             write(s, e_x, e_y, injected) ==
                 [ex |-> e_x, ey |-> e_y, hz |-> injected,
                  hist |-> computed(record_history(s.hist, k - 1, injected))]
             magnetic(s, e_x, e_y) ==
                 only({write(s, e_x, e_y, injected) :
                         injected \in {hard_source(update_hz(s, e_x, e_y), sourcepoint,
                                                   source(src, k - 1))}})
             body(s) == only({magnetic(s, e_x, e_y) : e_x \in {update_ex(s)}, e_y \in {update_ey(s)}})
         IN  only({body(s) :
                     s \in {loop_evolution_steps(nx, ny, k - 1, fields, coeffs, hist,
                                                 sourcepoint, src)}})

\* no_pml.loop_evolution: the history it returns (the source point lies in the grid)
loop_evolution(nx, ny, nt, fields, coeffs, hist, sourcepoint, src) ==
    loop_evolution_steps(nx, ny, nt, fields, coeffs, hist, sourcepoint, src).hist

\* C27: for the same zero-initialised fields, constants, source point and source the
\* loop implementation and the matrix implementation of the NoPML engine write the
\* same value into every history[x, y, t]
C27_LoopEquivalent ==
    \A r \in active :
        pc[r] = "done" /\ args[r].pml = "no" /\ ~args[r].used =>
            result[r] = loop_evolution(args[r].nx, args[r].ny, args[r].nt,
                                       make_fields(args[r].nx, args[r].ny), constants[r],
                                       np_full3(args[r].nx, args[r].ny, args[r].nt, args[r].garbage),
                                       args[r].p, args[r].source)

C29_MemoryZero ==
    \A r \in active :
        /\ pc[r] \in Running /\ args[r].entry = "evolution" /\ args[r].pml = "cpml"
        /\ args[r].loss = 0
        => /\ \A i \in 1 .. 4 : AllZero(aux_fields[r][i])
           /\ \A i \in 1 .. 4 : AllZero(aux_constants[r][i])
           /\ \A i \in 5 .. 8 : \A q \in DOMAIN aux_constants[r][i].data :
                  aux_constants[r][i].data[q] = 1

C29_Witness ==
    \E r \in active :
        /\ pc[r] = "done" /\ args[r].entry = "evolution" /\ args[r].pml = "cpml"
        /\ args[r].loss = 0 /\ args[r].used /\ args[r].nt = 2 /\ args[r].nx = 2 /\ args[r].ny = 2
        /\ \A i \in 1 .. 4 : AllZero(aux_fields[r][i])
        /\ \E q \in DOMAIN hz[r].data : hz[r].data[q] # At(hz[r], 0, 0)
        /\ ex[r] # used_fields(2, 2)[1]

\* C30: no statement of a step of any engine writes the outer columns Ex[:, 0] and
\* Ex[:, ny] or the outer rows Ey[0, :] and Ey[nx, :]
C30_BoundaryKept ==
    [][\A r \in active :
          pc[r] \in {"H", "S", "E", "W", "return"} /\ pc'[r] # "start" =>
              /\ ex'[r].shape = ex[r].shape /\ ey'[r].shape = ey[r].shape
              /\ \A q \in DOMAIN ex[r].data :
                     q[2] = 0 \/ q[2] = args[r].ny => ex'[r].data[q] = ex[r].data[q]
              /\ \A q \in DOMAIN ey[r].data :
                     q[1] = 0 \/ q[1] = args[r].nx => ey'[r].data[q] = ey[r].data[q]]_vars

C30_Witness ==
    \E r \in active :
        /\ pc[r] = "done" /\ ~args[r].used /\ args[r].nt = 2 /\ args[r].nx = 2 /\ args[r].ny = 2
        /\ \E q \in DOMAIN ex[r].data : ex[r].data[q] # 0
        /\ \E q \in DOMAIN ey[r].data : ey[r].data[q] # 0
        /\ \E q \in DOMAIN hz[r].data : q[2] = 1 /\ hz[r].data[q] # 0
        /\ \A q \in DOMAIN ex[r].data : q[2] = 0 \/ q[2] = args[r].ny => ex[r].data[q] = 0
        /\ \A q \in DOMAIN ey[r].data : q[1] = 0 \/ q[1] = args[r].nx => ey[r].data[q] = 0

====
